---- MODULE Spec2Model ----
(***************************************************************************)
(* A model of the Checkly API client of src/checkly.go: the transport      *)
(* (apiCall), the resource operations built on it, the query builder and   *)
(* the alert-channel codec.                                                *)
(*                                                                         *)
(* Strings are sequences of atoms.  An atom is a fragment of text that     *)
(* holds none of the characters the code looks for ("?", "&", "="); each   *)
(* of those characters is an atom of its own, so strings.Contains(url,"?") *)
(* is membership of the atom "?".                                          *)
(***************************************************************************)
EXTENDS Integers, Sequences, FiniteSets, TLC

VARIABLES
    c,        \* the client built by NewClient: url, apiKey, httpClient, debug
    pc,       \* "idle": no call in progress; "done": an operation has returned
    op,       \* name of the operation that returned last
    arg,      \* the arguments it was called with
    net,      \* what the network did with its request
    wire,     \* what the operation put on the wire: sent, method, url, data
    tr,       \* what apiCall returned to the operation: statusCode, response, err
    out,      \* what the operation returned to its caller: val, err, panicked
    sink      \* what the call wrote to the diagnostic sink, in order

vars == <<c, pc, op, arg, net, wire, tr, out, sink>>

----------------------------------------------------------------------------
(* Bounds of the model. *)

\* Integers of the codec are 0..MaxLo and 2^53 + 0..MaxLo.
MaxLo == 3

----------------------------------------------------------------------------
(* net/http status codes the operations compare against. *)

StatusOK == 200
StatusCreated == 201
StatusNoContent == 204

\* statuses a server answers with in the model
Statuses == {StatusOK, StatusCreated, StatusNoContent, 404, 500}

----------------------------------------------------------------------------
(* Strings. *)

Contains(s, atom) == \E i \in 1..Len(s) : s[i] = atom

Count(s, atom) == Cardinality({i \in 1..Len(s) : s[i] = atom})

\* an atom url.Parse rejects (an invalid percent escape)
BadEscape == "%zz"

\* fmt.Sprintf("%d", n)
FmtD(n) == <<ToString(n)>>

----------------------------------------------------------------------------
(* Numbers.  An integer is [hi, lo], standing for hi * 2^53 + lo with      *)
(* 0 <= lo < 2^52, so that the integers around 2^53, where a float64 stops *)
(* holding every integer, are values of the model.  A float64 is           *)
(* [hi, lo, half], standing for hi * 2^53 + lo + (half ? 0.5 : 0).         *)

IntV(hi, lo) == [hi |-> hi, lo |-> lo]

FloatV(hi, lo, half) == [hi |-> hi, lo |-> lo, half |-> half]

\* A JSON number literal is its integer part and its fraction as written:
\* "" for 42, ".0" for 42.0, ".5" for 42.5.

\* strconv.ParseFloat(literal, 64): the float64 nearest to the literal,
\* ties to the even mantissa.  From 2^53 on the float64s are the even
\* integers.
ParseFloat(hi, lo, frac) ==
    IF hi = 0 THEN FloatV(0, lo, frac = ".5")
    ELSE IF lo % 2 = 0 THEN FloatV(hi, lo, FALSE)
    ELSE IF frac = ".5" THEN FloatV(hi, lo + 1, FALSE)
    ELSE IF (lo - 1) % 4 = 0 THEN FloatV(hi, lo - 1, FALSE)
    ELSE FloatV(hi, lo + 1, FALSE)

\* float64(n) for an integer n
ToFloat(n) == ParseFloat(n.hi, n.lo, "")

\* int64(f), int(f): truncation toward zero
Trunc(f) == IntV(f.hi, f.lo)

----------------------------------------------------------------------------
(* JSON texts and Go values.                                               *)
(* A text is a JSON document (null, bool, num, str, obj, arr) or a text    *)
(* that is no JSON ("invalid": the empty body, an HTML error page).        *)

JNull == [k |-> "null"]
JBool(b) == [k |-> "bool", v |-> b]
JStr(s) == [k |-> "str", v |-> s]
JNum(hi, lo, frac) == [k |-> "num", v |-> [hi |-> hi, lo |-> lo, frac |-> frac]]
JObj(f) == [k |-> "obj", v |-> f]
JArr(s) == [k |-> "arr", v |-> s]
NotJSON(t) == [k |-> "invalid", v |-> t]

EmptyText == NotJSON("")

\* Go values held in an interface{}
GNil == [k |-> "nil"]
GBool(b) == [k |-> "bool", v |-> b]
GString(s) == [k |-> "string", v |-> s]
GInt(n) == [k |-> "int", v |-> n]
GInt64(n) == [k |-> "int64", v |-> n]
GFloat32(f) == [k |-> "float32", v |-> f]
GFloat64(f) == [k |-> "float64", v |-> f]
GMap(f) == [k |-> "map", v |-> f]
GSlice(s) == [k |-> "slice", v |-> s]

\* json.Marshal of a Go value
RECURSIVE jsonMarshal(_)
jsonMarshal(g) ==
    CASE g.k = "nil" -> JNull
      [] g.k = "bool" -> JBool(g.v)
      [] g.k = "string" -> JStr(g.v)
      [] g.k \in {"int", "int64"} -> JNum(g.v.hi, g.v.lo, "")
      [] g.k \in {"float32", "float64"} ->
            JNum(g.v.hi, g.v.lo, IF g.v.half THEN ".5" ELSE "")
      [] g.k = "map" -> JObj([key \in DOMAIN g.v |-> jsonMarshal(g.v[key])])
      [] g.k = "slice" -> JArr([i \in DOMAIN g.v |-> jsonMarshal(g.v[i])])

\* what json.Decoder stores in an interface{} for a JSON document: every
\* number becomes a float64
RECURSIVE jsonDecode(_)
jsonDecode(w) ==
    CASE w.k = "null" -> GNil
      [] w.k = "bool" -> GBool(w.v)
      [] w.k = "str" -> GString(w.v)
      [] w.k = "num" -> GFloat64(ParseFloat(w.v.hi, w.v.lo, w.v.frac))
      [] w.k = "obj" -> GMap([key \in DOMAIN w.v |-> jsonDecode(w.v[key])])
      [] w.k = "arr" -> GSlice([i \in DOMAIN w.v |-> jsonDecode(w.v[i])])

\* fmt's %q of a text: the text inside a Go string literal
Quote(text) == [quoted |-> text]

Unquote(q) == q.quoted

----------------------------------------------------------------------------
(* Errors.  The nil error is NoErr; every other error keeps the format and *)
(* the arguments fmt.Errorf was given.                                     *)

NoErr == [kind |-> "nil"]

\* the absence of a result (a nil pointer, a nil slice)
NoVal == [k |-> "none"]

\* an operation that returned normally
Return(val, err) == [val |-> val, err |-> err, panicked |-> FALSE]

\* an operation a failed type assertion aborted
Panic == [val |-> NoVal, err |-> NoErr, panicked |-> TRUE]

----------------------------------------------------------------------------
(* The client. *)

DefaultClient == "http.DefaultClient"

NewClient(baseURL, apiKey, httpClient, debug) ==
    [apiKey |-> apiKey,
     url |-> baseURL,
     httpClient |-> IF httpClient # "nil" THEN httpClient ELSE DefaultClient,
     debug |-> debug]

BaseURLs == {<<"https://", "api.checklyhq.com">>, <<"api.checklyhq.com">>}

Clients ==
    {NewClient(u, "key", h, d) :
        u \in BaseURLs, h \in {"nil", "custom"}, d \in {"nil", "writer"}}

----------------------------------------------------------------------------
(* The transport. *)

\* url.Parse, as far as http.NewRequest depends on it
urlParseOK(u) == ~Contains(u, BadEscape)

\* the request URL names a scheme http.Transport can speak
HasScheme(u) == Len(u) > 0 /\ u[1] \in {"http://", "https://"}

\* What the network does with a request: the connection fails, the context
\* is cancelled, the headers arrive and reading the body fails, or status
\* and body arrive whole.
NetFailures ==
    {[kind |-> k, status |-> 0, body |-> EmptyText] : k \in {"neterr", "cancelled"}}

Answers(bodies) ==
    {[kind |-> "ok", status |-> s, body |-> b] : s \in Statuses, b \in bodies}
    \cup {[kind |-> "readerr", status |-> s, body |-> EmptyText] : s \in Statuses}

Envs(bodies) == NetFailures \cup Answers(bodies)

BlankLine == [dump |-> "blank"]

RequestDump(req) == [dump |-> "request", req |-> req]

\* httputil.DumpResponse(resp, true); its error is ignored and the dump is
\* then empty
ResponseDump(env) ==
    IF env.kind = "ok"
    THEN [dump |-> "response", status |-> env.status, body |-> env.body]
    ELSE [dump |-> "response", status |-> 0, body |-> EmptyText]

\* dumpResponse that writes nothing
dumpResponse_Silent(env) == <<>>

dumpResponse(env) == <<ResponseDump(env), BlankLine>>

TransportErr(kind) == [kind |-> kind]

\* what one apiCall did: the three values it returned, whether it handed a
\* request to the HTTP client, the request it built, and its writes to the
\* sink in order
ApiResult(statusCode, response, err, sent, req, writes) ==
    [statusCode |-> statusCode, response |-> response, err |-> err,
     sent |-> sent, req |-> req, writes |-> writes]

\* apiCall that reports a failed read of the body as status 0
apiCall_ZeroOnReadError(cl, method, URL, data, env) ==
    LET requestURL == cl.url \o <<"/v1/">> \o URL
        req == [method |-> method, url |-> requestURL,
                auth |-> "Bearer " \o cl.apiKey,
                ctype |-> "application/json", body |-> data]
        w1 == IF cl.debug # "nil" THEN <<RequestDump(req), BlankLine>> ELSE <<>>
        w2 == IF cl.debug # "nil" THEN w1 \o dumpResponse(env) ELSE w1
        doFails == \/ env.kind \in {"neterr", "cancelled"}
                   \/ (cl.httpClient = DefaultClient /\ ~HasScheme(requestURL))
    IN  IF ~urlParseOK(requestURL)
        THEN ApiResult(0, EmptyText,
                       TransportErr("failed to create HTTP request"),
                       FALSE, [method |-> "", url |-> <<>>, auth |-> "",
                               ctype |-> "", body |-> EmptyText], <<>>)
        ELSE IF cl.debug # "nil" /\ ~HasScheme(requestURL)
        THEN ApiResult(0, EmptyText,
                       TransportErr("error dumping HTTP request"),
                       FALSE, req, <<>>)
        ELSE IF doFails
        THEN ApiResult(0, EmptyText,
                       TransportErr("HTTP request failed with"),
                       TRUE, req, w1)
        ELSE IF env.kind = "readerr"
        THEN ApiResult(0, EmptyText,
                       TransportErr("HTTP request failed"),
                       TRUE, req, w2)
        ELSE ApiResult(env.status, env.body, NoErr, TRUE, req, w2)

NoRequest == [method |-> "", url |-> <<>>, auth |-> "", ctype |-> "", body |-> EmptyText]

apiCall(cl, method, URL, data, env) ==
    LET requestURL == cl.url \o <<"/v1/">> \o URL
        req == [method |-> method, url |-> requestURL,
                auth |-> "Bearer " \o cl.apiKey,
                ctype |-> "application/json", body |-> data]
        w1 == IF cl.debug # "nil" THEN <<RequestDump(req), BlankLine>> ELSE <<>>
        w2 == IF cl.debug # "nil" THEN w1 \o dumpResponse(env) ELSE w1
        doFails == \/ env.kind \in {"neterr", "cancelled"}
                   \/ (cl.httpClient = DefaultClient /\ ~HasScheme(requestURL))
    IN  IF ~urlParseOK(requestURL)
        THEN ApiResult(0, EmptyText,
                       TransportErr("failed to create HTTP request"),
                       FALSE, NoRequest, <<>>)
        ELSE IF cl.debug # "nil" /\ ~HasScheme(requestURL)
        THEN ApiResult(0, EmptyText,
                       TransportErr("error dumping HTTP request"),
                       FALSE, req, <<>>)
        ELSE IF doFails
        THEN ApiResult(0, EmptyText,
                       TransportErr("HTTP request failed with"),
                       TRUE, req, w1)
        ELSE IF env.kind = "readerr"
        THEN ApiResult(env.status, EmptyText,
                       TransportErr("HTTP request failed"),
                       TRUE, req, w2)
        ELSE ApiResult(env.status, env.body, NoErr, TRUE, req, w2)

\* an operation's one call of apiCall, kept with its arguments
call(cl, method, URL, data, env) ==
    [call |-> [method |-> method, URL |-> URL, data |-> data],
     res |-> apiCall(cl, method, URL, data, env)]

\* the query-string flag of the write operations on checks and groups
Flag == <<"autoAssignAlerts", "=", "false">>

\* withAutoAssignAlertsFlag that never looks for a query string
withAutoAssignAlertsFlag_AlwaysQuestion(url) == url \o <<"?">> \o Flag

withAutoAssignAlertsFlag(url) ==
    IF Contains(url, "?")
    THEN url \o <<"&">> \o Flag
    ELSE url \o <<"?">> \o Flag

----------------------------------------------------------------------------
(* Alert channels. *)

\* an optional field (a nilable pointer): unset, or set to a value
Unset(zero) == [set |-> FALSE, v |-> zero]
Some(x) == [set |-> TRUE, v |-> x]

NilBool == Unset(FALSE)
NilInt == Unset(IntV(0, 0))

\* the closed registry of alert-channel types, with the keys of each
\* type's configuration
Registry == [EMAIL |-> {"address"}, WEBHOOK |-> {"url"}]

SupportedTypes == DOMAIN Registry

\* no typed configuration (all the config pointers are nil)
NoConfig == [type |-> "none", fields |-> [none |-> ""]]

\* the zero AlertChannel, &AlertChannel{}
ZeroAlertChannel ==
    [ID |-> IntV(0, 0), Type |-> "", Config |-> NoConfig,
     SendRecovery |-> NilBool, SendFailure |-> NilBool,
     SendDegraded |-> NilBool, SSLExpiry |-> NilBool,
     SSLExpiryThreshold |-> NilInt]

\* AlertChannel.GetConfig: the typed configuration as a generic map
GetConfig(ac) ==
    IF ac.Type \in SupportedTypes /\ ac.Config.type = ac.Type
    THEN GMap([key \in DOMAIN ac.Config.fields |-> GString(ac.Config.fields[key])])
    ELSE GNil

\* AlertChannel.SetConfig
SetConfig(ac, cfg) == [ac EXCEPT !.Config = cfg]

ConfigErr(why) == [kind |-> "config", why |-> why]

\* the shape of a configuration text is the one its type asks for
ShapeOK(channelType, cfgJSON) ==
    /\ cfgJSON.k = "obj"
    /\ DOMAIN cfgJSON.v = Registry[channelType]
    /\ \A key \in DOMAIN cfgJSON.v : cfgJSON.v[key].k = "str"

\* AlertChannelConfigFromJSON: the typed configuration, or an error
AlertChannelConfigFromJSON(channelType, cfgJSON) ==
    IF channelType \notin SupportedTypes
    THEN [cfg |-> NoConfig, err |-> ConfigErr("unknown type")]
    ELSE IF ~ShapeOK(channelType, cfgJSON)
    THEN [cfg |-> NoConfig, err |-> ConfigErr("invalid shape")]
    ELSE [cfg |-> [type |-> channelType,
                   fields |-> [key \in DOMAIN cfgJSON.v |-> cfgJSON.v[key].v]],
          err |-> NoErr]

\* OptionalKeys that sends every optional field, set or not
OptionalKeys_All(ac) ==
    {"sendRecovery", "sendDegraded", "sendFailure", "sslExpiry", "sslExpiryThreshold"}

OptionalKeys(ac) ==
    (IF ac.SendRecovery.set THEN {"sendRecovery"} ELSE {})
    \cup (IF ac.SendDegraded.set THEN {"sendDegraded"} ELSE {})
    \cup (IF ac.SendFailure.set THEN {"sendFailure"} ELSE {})
    \cup (IF ac.SSLExpiry.set THEN {"sslExpiry"} ELSE {})
    \cup (IF ac.SSLExpiryThreshold.set THEN {"sslExpiryThreshold"} ELSE {})

payloadFromAlertChannel(ac) ==
    GMap([key \in {"id", "type", "config"} \cup OptionalKeys(ac) |->
            CASE key = "id" -> GInt64(ac.ID)
              [] key = "type" -> GString(ac.Type)
              [] key = "config" -> GetConfig(ac)
              [] key = "sendRecovery" -> GBool(ac.SendRecovery.v)
              [] key = "sendDegraded" -> GBool(ac.SendDegraded.v)
              [] key = "sendFailure" -> GBool(ac.SendFailure.v)
              [] key = "sslExpiry" -> GBool(ac.SSLExpiry.v)
              [] key = "sslExpiryThreshold" -> GInt(ac.SSLExpiryThreshold.v)])

\* The outcome of extracting one field: the type assertion panicked, or
\* the field was assigned (set, with its value), or it was left alone.
Panicked == [panicked |-> TRUE, set |-> FALSE, v |-> GNil]
Assigned(x) == [panicked |-> FALSE, set |-> TRUE, v |-> x]
Skipped == [panicked |-> FALSE, set |-> FALSE, v |-> GNil]

\* the type switch on result["id"]: case int, int64 asserts int64;
\* case float32, float64 asserts float64
extractID(v) ==
    CASE v.k \in {"int", "int64"} ->
            IF v.k = "int64" THEN Assigned(v.v) ELSE Panicked
      [] v.k \in {"float32", "float64"} ->
            IF v.k = "float64" THEN Assigned(Trunc(v.v)) ELSE Panicked
      [] OTHER -> Skipped

\* the type switch on result["sslExpiryThreshold"]: case int, int64
\* asserts int; case float32, float64 asserts float64
extractSSLExpiryThreshold(v) ==
    CASE v.k \in {"int", "int64"} ->
            IF v.k = "int" THEN Assigned(v.v) ELSE Panicked
      [] v.k \in {"float32", "float64"} ->
            IF v.k = "float64" THEN Assigned(Trunc(v.v)) ELSE Panicked
      [] OTHER -> Skipped

\* v.(string)
assertString(v) == IF v.k = "string" THEN Assigned(v.v) ELSE Panicked

\* v.(bool)
assertBool(v) == IF v.k = "bool" THEN Assigned(v.v) ELSE Panicked

\* json.NewDecoder(...).Decode(&result) for result a map[string]interface{}:
\* null leaves the map as it was (empty), an object fills it, every other
\* text is an error
decodeMap(text) ==
    CASE text.k = "obj" -> [err |-> FALSE, m |-> jsonDecode(text).v]
      [] text.k = "null" -> [err |-> FALSE, m |-> [none \in {} |-> GNil]]
      [] OTHER -> [err |-> TRUE, m |-> [none \in {} |-> GNil]]

DecodeErr(format, text) == [kind |-> "decode", format |-> format, res |-> text]

OptOf(x, zero) == IF x.set THEN Some(x.v) ELSE Unset(zero)

\* alertChannelFromJSON from the decoded map on: the extraction of the
\* fields and the parsing of the configuration
alertChannelFromMap(result) ==
    LET id == IF "id" \in DOMAIN result THEN extractID(result["id"]) ELSE Skipped
        type == IF "type" \in DOMAIN result THEN assertString(result["type"]) ELSE Skipped
        sr == IF "sendRecovery" \in DOMAIN result THEN assertBool(result["sendRecovery"]) ELSE Skipped
        sf == IF "sendFailure" \in DOMAIN result THEN assertBool(result["sendFailure"]) ELSE Skipped
        sd == IF "sendDegraded" \in DOMAIN result THEN assertBool(result["sendDegraded"]) ELSE Skipped
        expiry == IF "sslExpiry" \in DOMAIN result THEN assertBool(result["sslExpiry"]) ELSE Skipped
        thr == IF "sslExpiryThreshold" \in DOMAIN result THEN extractSSLExpiryThreshold(result["sslExpiryThreshold"]) ELSE Skipped
        resultAc ==
            [ID |-> IF id.set THEN id.v ELSE IntV(0, 0),
             Type |-> IF type.set THEN type.v ELSE "",
             Config |-> NoConfig,
             SendRecovery |-> OptOf(sr, FALSE),
             SendFailure |-> OptOf(sf, FALSE),
             SendDegraded |-> OptOf(sd, FALSE),
             SSLExpiry |-> OptOf(expiry, FALSE),
             SSLExpiryThreshold |-> OptOf(thr, IntV(0, 0))]
        cfgJSON == IF "config" \in DOMAIN result
                   THEN jsonMarshal(result["config"]) ELSE JNull
        cf == AlertChannelConfigFromJSON(resultAc.Type, cfgJSON)
    IN  IF \/ id.panicked \/ type.panicked \/ sr.panicked \/ sf.panicked
           \/ sd.panicked \/ expiry.panicked \/ thr.panicked
        THEN Panic
        ELSE IF "config" \in DOMAIN result
        THEN IF cf.err # NoErr
             THEN Return(NoVal, cf.err)
             ELSE Return(SetConfig(resultAc, cf.cfg), NoErr)
        ELSE Return(resultAc, NoErr)

alertChannelFromJSON(response) ==
    LET d == decodeMap(response)
    IN  IF d.err
        THEN Return(NoVal, DecodeErr("UpdateAlertChannel: decoding error for data Res(%s), Err(%w)", response))
        ELSE alertChannelFromMap(d.m)

----------------------------------------------------------------------------
(* Resources other than alert channels (Check, Group, Snippet,             *)
(* EnvironmentVariable, CheckResult): a record of scalar fields, here the  *)
(* one field name.                                                         *)

Resource(name) == [k |-> "struct", v |-> [name |-> name]]

ZeroResource == Resource("")

\* json.Marshal of a resource
marshalResource(x) == JObj([name |-> JStr(x.v.name)])

\* json.Unmarshal of one JSON value into a resource struct: null leaves the
\* zero struct, an object fills the fields it names
structOK(w) ==
    \/ w.k = "null"
    \/ w.k = "obj" /\ ("name" \in DOMAIN w.v => w.v["name"].k \in {"str", "null"})

structOf(w) ==
    IF w.k = "obj" /\ "name" \in DOMAIN w.v /\ w.v["name"].k = "str"
    THEN Resource(w.v["name"].v)
    ELSE ZeroResource

\* json.NewDecoder(...).Decode(&result) for a struct, with the operation's
\* error on failure
decodeResource(res, format) ==
    IF structOK(res)
    THEN Return(structOf(res), NoErr)
    ELSE Return(NoVal, DecodeErr(format, res))

\* ... for result a []CheckResult
decodeResources(res, format) ==
    CASE res.k = "null" -> Return(GSlice(<<>>), NoErr)
      [] res.k = "arr" /\ \A i \in DOMAIN res.v : structOK(res.v[i]) ->
            Return(GSlice([i \in DOMAIN res.v |-> structOf(res.v[i])]), NoErr)
      [] OTHER -> Return(NoVal, DecodeErr(format, res))

NoPayload == [present |-> FALSE, data |-> EmptyText]

\* StatusErr that leaves the body out of the message
StatusErr_NoBody(format, status, res, payload) ==
    [kind |-> "status", format |-> format, status |-> status,
     res |-> Quote(EmptyText), payload |-> payload]

\* fmt.Errorf of an unexpected status: the status with %d, the body with %q
StatusErr(format, status, res, payload) ==
    [kind |-> "status", format |-> format, status |-> status,
     res |-> Quote(res), payload |-> payload]

FmtStatus == "unexpected response status %d: %q"
FmtStatusRes == "unexpected response status: %d, res: %q"
FmtStatusPayload == "unexpected response status: %d, res: %q, payload: %v"
FmtDecodeS == "decoding error for data %s: %v"
FmtDecodeQ == "decoding error for data %q: %v"

\* what an operation did: the apiCall it made and what it returned
Did(r, result) == [api |-> r.res, call |-> r.call, out |-> result]

\* the tail the operations share: the transport's error, the status check,
\* the decoding of the body
Checked(r, ok, statusErr, decoded) ==
    Did(r, IF r.res.err # NoErr THEN Return(NoVal, r.res.err)
           ELSE IF ~ok THEN Return(NoVal, statusErr)
           ELSE decoded)

\* the tail of a delete
Deleted(r) ==
    Did(r, IF r.res.err # NoErr THEN Return(NoVal, r.res.err)
           ELSE IF r.res.statusCode # StatusNoContent
           THEN Return(NoVal, StatusErr(FmtStatus, r.res.statusCode, r.res.response, NoPayload))
           ELSE Return(NoVal, NoErr))

\* Create with the status check of CreateAlertChannel
Create_AcceptsOK(cl, check, env) ==
    LET data == marshalResource(check)
        r == call(cl, "POST", withAutoAssignAlertsFlag(<<"checks">>), data, env)
    IN  Checked(r, r.res.statusCode = StatusOK \/ r.res.statusCode = StatusCreated,
                StatusErr(FmtStatus, r.res.statusCode, r.res.response, NoPayload),
                decodeResource(r.res.response, FmtDecodeS))

Create(cl, check, env) ==
    LET data == marshalResource(check)
        r == call(cl, "POST", withAutoAssignAlertsFlag(<<"checks">>), data, env)
    IN  Checked(r, r.res.statusCode = StatusCreated,
                StatusErr(FmtStatus, r.res.statusCode, r.res.response, NoPayload),
                decodeResource(r.res.response, FmtDecodeS))

Update(cl, ID, check, env) ==
    LET data == marshalResource(check)
        r == call(cl, "PUT", withAutoAssignAlertsFlag(<<"checks/">> \o ID), data, env)
    IN  Checked(r, r.res.statusCode = StatusOK,
                StatusErr(FmtStatus, r.res.statusCode, r.res.response, NoPayload),
                decodeResource(r.res.response, FmtDecodeS))

Delete(cl, ID, env) ==
    Deleted(call(cl, "DELETE", <<"checks/">> \o ID, EmptyText, env))

Get(cl, ID, env) ==
    LET r == call(cl, "GET", <<"checks/">> \o ID, EmptyText, env)
    IN  Checked(r, r.res.statusCode = StatusOK,
                StatusErr(FmtStatus, r.res.statusCode, r.res.response, NoPayload),
                decodeResource(r.res.response, FmtDecodeS))

CreateGroup(cl, group, env) ==
    LET data == marshalResource(group)
        r == call(cl, "POST", withAutoAssignAlertsFlag(<<"check-groups">>), data, env)
    IN  Checked(r, r.res.statusCode = StatusCreated,
                StatusErr(FmtStatus, r.res.statusCode, r.res.response, NoPayload),
                decodeResource(r.res.response, FmtDecodeS))

GetGroup(cl, ID, env) ==
    LET r == call(cl, "GET", <<"check-groups/">> \o FmtD(ID), EmptyText, env)
    IN  Checked(r, r.res.statusCode = StatusOK,
                StatusErr(FmtStatus, r.res.statusCode, r.res.response, NoPayload),
                decodeResource(r.res.response, FmtDecodeQ))

UpdateGroup(cl, ID, group, env) ==
    LET data == marshalResource(group)
        r == call(cl, "PUT",
                     withAutoAssignAlertsFlag(<<"check-groups/">> \o FmtD(ID)), data, env)
    IN  Checked(r, r.res.statusCode = StatusOK,
                StatusErr(FmtStatus, r.res.statusCode, r.res.response, NoPayload),
                decodeResource(r.res.response, FmtDecodeS))

DeleteGroup(cl, ID, env) ==
    Deleted(call(cl, "DELETE", <<"check-groups/">> \o FmtD(ID), EmptyText, env))

GetCheckResult(cl, checkID, checkResultID, env) ==
    LET r == call(cl, "GET",
                     <<"check-results/">> \o checkID \o <<"/">> \o checkResultID,
                     EmptyText, env)
    IN  Checked(r, r.res.statusCode = StatusOK,
                StatusErr(FmtStatus, r.res.statusCode, r.res.response, NoPayload),
                decodeResource(r.res.response, FmtDecodeQ))

----------------------------------------------------------------------------
(* The query builder of GetCheckResults. *)

\* the check types a filter may name
TypeBrowser == "BROWSER"
TypeAPI == "API"

\* url.QueryEscape, atom by atom
EscapeAtom(a) ==
    CASE a = "&" -> "%26"
      [] a = "=" -> "%3D"
      [] a = "?" -> "%3F"
      [] a = " " -> "+"
      [] OTHER -> a

QueryEscape(str) == [i \in DOMAIN str |-> EscapeAtom(str[i])]

\* the keys of the filter's query, in the order url.Values.Encode sorts them
SortedKeys == <<"checkType", "from", "hasFailures", "limit", "location", "page", "to">>

\* url.Values.Encode on the keys from position i on: key=value pairs
\* joined by "&"
RECURSIVE EncodeFrom(_, _, _)
EncodeFrom(q, i, first) ==
    IF i > Len(SortedKeys) THEN <<>>
    ELSE IF SortedKeys[i] \notin DOMAIN q THEN EncodeFrom(q, i + 1, first)
    ELSE (IF first THEN <<>> ELSE <<"&">>)
         \o <<SortedKeys[i], "=">> \o QueryEscape(q[SortedKeys[i]])
         \o EncodeFrom(q, i + 1, FALSE)

Encode(q) == EncodeFrom(q, 1, TRUE)

\* FilterKeys that takes page 0 for a page
FilterKeys_PageZero(filters) ==
    (IF filters.Page >= 0 THEN {"page"} ELSE {})
    \cup (IF filters.Limit > 0 THEN {"limit"} ELSE {})
    \cup (IF filters.From > 0 THEN {"from"} ELSE {})
    \cup (IF filters.To > 0 THEN {"to"} ELSE {})
    \cup (IF filters.CheckType = TypeBrowser \/ filters.CheckType = TypeAPI
          THEN {"checkType"} ELSE {})
    \cup (IF filters.HasFailures THEN {"hasFailures"} ELSE {})
    \cup (IF Len(filters.Location) > 0 THEN {"location"} ELSE {})

\* the url.Values the filter fills: one q.Add per field the code accepts
FilterKeys(filters) ==
    (IF filters.Page > 0 THEN {"page"} ELSE {})
    \cup (IF filters.Limit > 0 THEN {"limit"} ELSE {})
    \cup (IF filters.From > 0 THEN {"from"} ELSE {})
    \cup (IF filters.To > 0 THEN {"to"} ELSE {})
    \cup (IF filters.CheckType = TypeBrowser \/ filters.CheckType = TypeAPI
          THEN {"checkType"} ELSE {})
    \cup (IF filters.HasFailures THEN {"hasFailures"} ELSE {})
    \cup (IF Len(filters.Location) > 0 THEN {"location"} ELSE {})

FilterValues(filters) ==
    [key \in FilterKeys(filters) |->
        CASE key = "page" -> FmtD(filters.Page)
          [] key = "limit" -> FmtD(filters.Limit)
          [] key = "from" -> FmtD(filters.From)
          [] key = "to" -> FmtD(filters.To)
          [] key = "checkType" -> <<filters.CheckType>>
          [] key = "hasFailures" -> <<"1">>
          [] key = "location" -> filters.Location]

\* the request URI of GetCheckResults
CheckResultsURI(checkID, filters) ==
    IF filters.nil
    THEN <<"check-results/">> \o checkID
    ELSE <<"check-results/">> \o checkID \o <<"?">> \o Encode(FilterValues(filters))

GetCheckResults(cl, checkID, filters, env) ==
    LET uri == CheckResultsURI(checkID, filters)
        r == call(cl, "GET", uri, EmptyText, env)
    IN  Checked(r, r.res.statusCode = StatusOK,
                StatusErr(FmtStatus, r.res.statusCode, r.res.response, NoPayload),
                decodeResources(r.res.response, FmtDecodeQ))

----------------------------------------------------------------------------
(* Snippets, environment variables and alert channels. *)

CreateSnippet(cl, snippet, env) ==
    LET data == marshalResource(snippet)
        r == call(cl, "POST", <<"snippets">>, data, env)
    IN  Checked(r, r.res.statusCode = StatusCreated,
                StatusErr(FmtStatusRes, r.res.statusCode, r.res.response, NoPayload),
                decodeResource(r.res.response, FmtDecodeS))

GetSnippet(cl, ID, env) ==
    LET r == call(cl, "GET", <<"snippets/">> \o FmtD(ID), EmptyText, env)
    IN  Checked(r, r.res.statusCode = StatusOK,
                StatusErr(FmtStatus, r.res.statusCode, r.res.response, NoPayload),
                decodeResource(r.res.response, FmtDecodeQ))

UpdateSnippet(cl, ID, snippet, env) ==
    LET data == marshalResource(snippet)
        r == call(cl, "PUT", <<"snippets/">> \o FmtD(ID), data, env)
    IN  Checked(r, r.res.statusCode = StatusOK,
                StatusErr(FmtStatus, r.res.statusCode, r.res.response, NoPayload),
                decodeResource(r.res.response, FmtDecodeS))

DeleteSnippet(cl, ID, env) ==
    Deleted(call(cl, "DELETE", <<"snippets/">> \o FmtD(ID), EmptyText, env))

CreateEnvironmentVariable(cl, envVar, env) ==
    LET data == marshalResource(envVar)
        r == call(cl, "POST", <<"variables">>, data, env)
    IN  Checked(r, r.res.statusCode = StatusCreated,
                StatusErr(FmtStatusRes, r.res.statusCode, r.res.response, NoPayload),
                decodeResource(r.res.response, FmtDecodeS))

GetEnvironmentVariable(cl, key, env) ==
    LET r == call(cl, "GET", <<"variables/">> \o key, EmptyText, env)
    IN  Checked(r, r.res.statusCode = StatusOK,
                StatusErr(FmtStatus, r.res.statusCode, r.res.response, NoPayload),
                decodeResource(r.res.response, FmtDecodeQ))

UpdateEnvironmentVariable(cl, key, envVar, env) ==
    LET data == marshalResource(envVar)
        r == call(cl, "PUT", <<"variables/">> \o key, data, env)
    IN  Checked(r, r.res.statusCode = StatusOK,
                StatusErr(FmtStatus, r.res.statusCode, r.res.response, NoPayload),
                decodeResource(r.res.response, FmtDecodeS))

DeleteEnvironmentVariable(cl, key, env) ==
    Deleted(call(cl, "DELETE", <<"variables/">> \o key, EmptyText, env))

CreateAlertChannel(cl, ac, env) ==
    LET payload == payloadFromAlertChannel(ac)
        data == jsonMarshal(payload)
        r == call(cl, "POST", <<"alert-channels">>, data, env)
    IN  Checked(r, r.res.statusCode = StatusOK \/ r.res.statusCode = StatusCreated,
                StatusErr(FmtStatusPayload, r.res.statusCode, r.res.response,
                          [present |-> TRUE, data |-> data]),
                alertChannelFromJSON(r.res.response))

GetAlertChannel(cl, ID, env) ==
    LET r == call(cl, "GET", <<"alert-channels/">> \o FmtD(ID), EmptyText, env)
    IN  Checked(r, r.res.statusCode = StatusOK,
                StatusErr(FmtStatus, r.res.statusCode, r.res.response, NoPayload),
                IF decodeMap(r.res.response).err
                THEN Return(NoVal,
                            DecodeErr("GetAlertChannel: decoding error for data %q: %v",
                                      r.res.response))
                ELSE alertChannelFromJSON(r.res.response))

UpdateAlertChannel(cl, ID, ac, env) ==
    LET payload == payloadFromAlertChannel(ac)
        data == jsonMarshal(payload)
        r == call(cl, "PUT", <<"alert-channels/">> \o FmtD(ID), data, env)
    IN  Checked(r, r.res.statusCode = StatusOK,
                StatusErr(FmtStatus, r.res.statusCode, r.res.response, NoPayload),
                alertChannelFromJSON(r.res.response))

DeleteAlertChannel(cl, ID, env) ==
    Deleted(call(cl, "DELETE", <<"alert-channels/">> \o FmtD(ID), EmptyText, env))

----------------------------------------------------------------------------
(* The arguments callers pass and the bodies servers answer with. *)

\* a plain identifier, one that carries a query string of its own, and one
\* url.Parse rejects
CheckIDs == {<<"c1">>, <<"c1", "?", "x", "=", "1">>, <<BadEscape>>}

\* the check whose results are listed
ResultsCheckIDs == {<<"c1">>}

ResultIDs == {<<"r1">>}

VariableKeys == {<<"API_TOKEN">>}

NumericIDs == {7}

Resources == {Resource("web")}

NilFilter ==
    [nil |-> TRUE, Page |-> 0, Limit |-> 0, From |-> 0, To |-> 0,
     CheckType |-> "", HasFailures |-> FALSE, Location |-> <<>>]

Filters ==
    {NilFilter} \cup
    [nil : {FALSE}, Page : {-1, 0, 2}, Limit : {0, 10}, From : {0, 100},
     To : {0, 200}, CheckType : {"", TypeAPI, TypeBrowser, "OTHER"},
     HasFailures : BOOLEAN,
     Location : {<<>>, <<"eu", "&", "us">>}]

EmailConfig == [type |-> "EMAIL", fields |-> [address |-> "ops@example.com"]]
WebhookConfig == [type |-> "WEBHOOK", fields |-> [url |-> "hook.example.com"]]

ConfigOf(type) == IF type = "EMAIL" THEN EmailConfig ELSE WebhookConfig

\* the alert channels callers create and update
CallerChannels ==
    {[ZeroAlertChannel EXCEPT !.ID = IntV(0, 1), !.Type = "EMAIL",
                              !.Config = EmailConfig],
     [ZeroAlertChannel EXCEPT !.ID = IntV(0, 2), !.Type = "WEBHOOK",
                              !.Config = WebhookConfig,
                              !.SendRecovery = Some(FALSE),
                              !.SSLExpiryThreshold = Some(IntV(0, 3))]}

ResourceBodies ==
    {EmptyText, NotJSON("<html>"), JNull, JArr(<<>>),
     JObj([name |-> JStr("web")]), JObj([name |-> JNum(0, 1, "")])}

ListBodies ==
    {EmptyText, JArr(<<JObj([name |-> JStr("web")])>>), JObj([name |-> JStr("web")])}

ChannelBodies ==
    {EmptyText, NotJSON("<html>"), JNull,
     JObj([id |-> JNum(0, 1, ""), type |-> JStr("EMAIL"),
           config |-> JObj([address |-> JStr("ops@example.com")])]),
     JObj([id |-> JNum(0, 1, ".0"), type |-> JStr("EMAIL"),
           config |-> JObj([address |-> JStr("ops@example.com")]),
           sendRecovery |-> JBool(TRUE), sslExpiryThreshold |-> JNum(0, 3, "")]),
     JObj([id |-> JNum(0, 1, ""), type |-> JStr("BOGUS")]),
     JObj([id |-> JNum(0, 1, ""), type |-> JStr("BOGUS"), config |-> JObj([x |-> JStr("y")])]),
     JObj([id |-> JNum(0, 1, ""), type |-> JNull,
           config |-> JObj([address |-> JStr("ops@example.com")])]),
     JObj([id |-> JStr("1"), type |-> JStr("EMAIL"),
           config |-> JObj([address |-> JStr("ops@example.com")])]),
     JObj([id |-> JNum(0, 1, ""), type |-> JStr("EMAIL"),
           config |-> JObj([address |-> JStr("ops@example.com")]),
           sendFailure |-> JNum(0, 1, "")])}

----------------------------------------------------------------------------
(* The state machine of one client: a caller calls an operation, the       *)
(* operation runs to its return, the caller takes the result.              *)

None == [k |-> "none"]

Init ==
    /\ c \in Clients
    /\ pc = "idle"
    /\ op = "none"
    /\ arg = None
    /\ net = None
    /\ wire = None
    /\ tr = None
    /\ out = None
    /\ sink = <<>>

\* the operation name called with a over network behaviour env did d
Finish(name, a, env, d) ==
    /\ pc' = "done"
    /\ op' = name
    /\ arg' = a
    /\ net' = env
    /\ wire' = [sent |-> d.api.sent, req |-> d.api.req, call |-> d.call]
    /\ tr' = [statusCode |-> d.api.statusCode, response |-> d.api.response,
              err |-> d.api.err]
    /\ out' = d.out
    /\ sink' = d.api.writes
    /\ UNCHANGED c

NoID == <<>>
NoBody == None

Args(id, body) == [id |-> id, body |-> body]

DoCreate ==
    /\ pc = "idle"
    /\ \E x \in Resources, env \in Envs(ResourceBodies) :
        Finish("Create", Args(NoID, x), env, Create(c, x, env))

DoUpdate ==
    /\ pc = "idle"
    /\ \E id \in CheckIDs, x \in Resources, env \in Envs(ResourceBodies) :
        Finish("Update", Args(id, x), env, Update(c, id, x, env))

DoDelete ==
    /\ pc = "idle"
    /\ \E id \in CheckIDs, env \in Envs(ResourceBodies) :
        Finish("Delete", Args(id, NoBody), env, Delete(c, id, env))

DoGet ==
    /\ pc = "idle"
    /\ \E id \in CheckIDs, env \in Envs(ResourceBodies) :
        Finish("Get", Args(id, NoBody), env, Get(c, id, env))

DoCreateGroup ==
    /\ pc = "idle"
    /\ \E x \in Resources, env \in Envs(ResourceBodies) :
        Finish("CreateGroup", Args(NoID, x), env, CreateGroup(c, x, env))

DoGetGroup ==
    /\ pc = "idle"
    /\ \E id \in NumericIDs, env \in Envs(ResourceBodies) :
        Finish("GetGroup", Args(FmtD(id), NoBody), env, GetGroup(c, id, env))

DoUpdateGroup ==
    /\ pc = "idle"
    /\ \E id \in NumericIDs, x \in Resources, env \in Envs(ResourceBodies) :
        Finish("UpdateGroup", Args(FmtD(id), x), env, UpdateGroup(c, id, x, env))

DoDeleteGroup ==
    /\ pc = "idle"
    /\ \E id \in NumericIDs, env \in Envs(ResourceBodies) :
        Finish("DeleteGroup", Args(FmtD(id), NoBody), env, DeleteGroup(c, id, env))

DoGetCheckResult ==
    /\ pc = "idle"
    /\ \E id \in CheckIDs, rid \in ResultIDs, env \in Envs(ResourceBodies) :
        Finish("GetCheckResult", Args(id \o <<"/">> \o rid, NoBody), env,
               GetCheckResult(c, id, rid, env))

DoGetCheckResults ==
    /\ pc = "idle"
    /\ \E id \in ResultsCheckIDs, f \in Filters, env \in Envs(ListBodies) :
        Finish("GetCheckResults", Args(id, f), env, GetCheckResults(c, id, f, env))

DoCreateSnippet ==
    /\ pc = "idle"
    /\ \E x \in Resources, env \in Envs(ResourceBodies) :
        Finish("CreateSnippet", Args(NoID, x), env, CreateSnippet(c, x, env))

DoGetSnippet ==
    /\ pc = "idle"
    /\ \E id \in NumericIDs, env \in Envs(ResourceBodies) :
        Finish("GetSnippet", Args(FmtD(id), NoBody), env, GetSnippet(c, id, env))

DoUpdateSnippet ==
    /\ pc = "idle"
    /\ \E id \in NumericIDs, x \in Resources, env \in Envs(ResourceBodies) :
        Finish("UpdateSnippet", Args(FmtD(id), x), env, UpdateSnippet(c, id, x, env))

DoDeleteSnippet ==
    /\ pc = "idle"
    /\ \E id \in NumericIDs, env \in Envs(ResourceBodies) :
        Finish("DeleteSnippet", Args(FmtD(id), NoBody), env, DeleteSnippet(c, id, env))

DoCreateEnvironmentVariable ==
    /\ pc = "idle"
    /\ \E x \in Resources, env \in Envs(ResourceBodies) :
        Finish("CreateEnvironmentVariable", Args(NoID, x), env,
               CreateEnvironmentVariable(c, x, env))

DoGetEnvironmentVariable ==
    /\ pc = "idle"
    /\ \E key \in VariableKeys, env \in Envs(ResourceBodies) :
        Finish("GetEnvironmentVariable", Args(key, NoBody), env,
               GetEnvironmentVariable(c, key, env))

DoUpdateEnvironmentVariable ==
    /\ pc = "idle"
    /\ \E key \in VariableKeys, x \in Resources, env \in Envs(ResourceBodies) :
        Finish("UpdateEnvironmentVariable", Args(key, x), env,
               UpdateEnvironmentVariable(c, key, x, env))

DoDeleteEnvironmentVariable ==
    /\ pc = "idle"
    /\ \E key \in VariableKeys, env \in Envs(ResourceBodies) :
        Finish("DeleteEnvironmentVariable", Args(key, NoBody), env,
               DeleteEnvironmentVariable(c, key, env))

DoCreateAlertChannel ==
    /\ pc = "idle"
    /\ \E ac \in CallerChannels, env \in Envs(ChannelBodies) :
        Finish("CreateAlertChannel", Args(NoID, ac), env, CreateAlertChannel(c, ac, env))

DoGetAlertChannel ==
    /\ pc = "idle"
    /\ \E id \in NumericIDs, env \in Envs(ChannelBodies) :
        Finish("GetAlertChannel", Args(FmtD(id), NoBody), env, GetAlertChannel(c, id, env))

DoUpdateAlertChannel ==
    /\ pc = "idle"
    /\ \E id \in NumericIDs, ac \in CallerChannels, env \in Envs(ChannelBodies) :
        Finish("UpdateAlertChannel", Args(FmtD(id), ac), env,
               UpdateAlertChannel(c, id, ac, env))

DoDeleteAlertChannel ==
    /\ pc = "idle"
    /\ \E id \in NumericIDs, env \in Envs(ChannelBodies) :
        Finish("DeleteAlertChannel", Args(FmtD(id), NoBody), env,
               DeleteAlertChannel(c, id, env))

\* the caller takes the result; the client is as it was
TakeResult ==
    /\ pc = "done"
    /\ pc' = "idle"
    /\ op' = "none"
    /\ arg' = None
    /\ net' = None
    /\ wire' = None
    /\ tr' = None
    /\ out' = None
    /\ sink' = <<>>
    /\ UNCHANGED c

Next ==
    \/ DoCreate \/ DoUpdate \/ DoDelete \/ DoGet
    \/ DoCreateGroup \/ DoGetGroup \/ DoUpdateGroup \/ DoDeleteGroup
    \/ DoGetCheckResult \/ DoGetCheckResults
    \/ DoCreateSnippet \/ DoGetSnippet \/ DoUpdateSnippet \/ DoDeleteSnippet
    \/ DoCreateEnvironmentVariable \/ DoGetEnvironmentVariable
    \/ DoUpdateEnvironmentVariable \/ DoDeleteEnvironmentVariable
    \/ DoCreateAlertChannel \/ DoGetAlertChannel
    \/ DoUpdateAlertChannel \/ DoDeleteAlertChannel
    \/ TakeResult

Spec == Init /\ [][Next]_vars

----------------------------------------------------------------------------
(* The codec on its own: alertChannelFromJSON applied to a text, the round *)
(* trip of an alert channel through its payload and JSON, and the          *)
(* extraction applied to a map whose numbers a decoder left as integers or *)
(* as floats.                                                              *)

Absent == [k |-> "absent"]

\* the values a server may send under each key of an alert channel
KeyOptions ==
    [id : {Absent, JNum(0, 1, ""), JNum(0, 1, ".0"), JStr("1")},
     type : {Absent, JStr("EMAIL"), JStr("BOGUS"), JNull},
     sendRecovery : {Absent, JBool(TRUE), JBool(FALSE), JNull},
     sendFailure : {Absent, JBool(TRUE), JNum(0, 1, "")},
     sendDegraded : {Absent, JBool(FALSE), JStr("no")},
     sslExpiry : {Absent, JBool(TRUE), JNull},
     sslExpiryThreshold : {Absent, JNum(0, MaxLo, ""), JNum(0, MaxLo, ".5")},
     config : {Absent, JNull, JObj([address |-> JStr("ops@example.com")]),
               JObj([url |-> JStr("hook.example.com")])}]

ChannelKeys ==
    {"id", "type", "sendRecovery", "sendFailure", "sendDegraded", "sslExpiry",
     "sslExpiryThreshold", "config"}

\* the JSON object that holds the keys of o that are not absent
ObjectOf(o) == JObj([key \in {k \in ChannelKeys : o[k] # Absent} |-> o[key]])

ChannelTexts ==
    {ObjectOf(o) : o \in KeyOptions}
    \cup {EmptyText, NotJSON("<html>"), JNull, JArr(<<>>), JNum(0, 1, "")}

\* the integers of the model: 0..MaxLo and 2^53 + 0..MaxLo
Ints == {IntV(hi, lo) : hi \in 0..1, lo \in 0..MaxLo}

OptBools == {NilBool, Some(TRUE), Some(FALSE)}

\* the alert channels of the supported types, each with the configuration
\* of its type
Channels ==
    {[ID |-> id, Type |-> t, Config |-> ConfigOf(t),
      SendRecovery |-> sr, SendFailure |-> sf, SendDegraded |-> sd,
      SSLExpiry |-> se, SSLExpiryThreshold |-> th] :
        id \in Ints, t \in SupportedTypes, sr \in OptBools, sf \in OptBools,
        sd \in OptBools, se \in OptBools,
        th \in {NilInt} \cup {Some(n) : n \in Ints}}

\* a number as the Go types the type switches name
NumberValues ==
    {GInt(n) : n \in Ints} \cup {GInt64(n) : n \in Ints}
    \cup {GFloat32(ToFloat(n)) : n \in Ints}
    \cup {GFloat64(ToFloat(n)) : n \in Ints}

\* decoded maps of an EMAIL channel whose id and sslExpiryThreshold are
\* numbers of those types
TypedMaps ==
    {[id |-> v, sslExpiryThreshold |-> w, type |-> GString("EMAIL"),
      config |-> GMap([address |-> GString("ops@example.com")])] :
        v \in NumberValues, w \in {GFloat64(FloatV(0, 1, FALSE)), GInt(IntV(0, 1)),
                                   GInt64(IntV(0, 1)), GFloat32(FloatV(0, 1, FALSE))}}

CodecInputs ==
    {[kind |-> "text", x |-> t] : t \in ChannelTexts}
    \cup {[kind |-> "channel", x |-> ac] : ac \in Channels}
    \cup {[kind |-> "map", x |-> m] : m \in TypedMaps}

CodecInit ==
    /\ c = NewClient(<<"https://", "api.checklyhq.com">>, "key", "nil", "nil")
    /\ pc = "input"
    /\ op = "none"
    /\ arg \in CodecInputs
    /\ net = None
    /\ wire = None
    /\ tr = None
    /\ out = None
    /\ sink = <<>>

Applied(name, text, result) ==
    /\ pc' = "done"
    /\ op' = name
    /\ wire' = text
    /\ out' = result
    /\ UNCHANGED <<c, arg, net, tr, sink>>

\* alertChannelFromJSON on a response text
DecodeText ==
    /\ pc = "input"
    /\ arg.kind = "text"
    /\ Applied("alertChannelFromJSON", arg.x, alertChannelFromJSON(arg.x))

\* payloadFromAlertChannel, json.Marshal, alertChannelFromJSON
RoundTrip ==
    /\ pc = "input"
    /\ arg.kind = "channel"
    /\ LET data == jsonMarshal(payloadFromAlertChannel(arg.x))
       IN  Applied("roundTrip", data, alertChannelFromJSON(data))

\* the extraction on a decoded map
ExtractFromMap ==
    /\ pc = "input"
    /\ arg.kind = "map"
    /\ Applied("alertChannelFromMap", None, alertChannelFromMap(arg.x))

CodecNext == DecodeText \/ RoundTrip \/ ExtractFromMap

SpecCodec == CodecInit /\ [][CodecNext]_vars

----------------------------------------------------------------------------
(* The endpoint table: the statuses that signal success, by operation. *)

Creates ==
    {"Create", "CreateGroup", "CreateSnippet", "CreateEnvironmentVariable",
     "CreateAlertChannel"}

Updates ==
    {"Update", "UpdateGroup", "UpdateSnippet", "UpdateEnvironmentVariable",
     "UpdateAlertChannel"}

Deletes ==
    {"Delete", "DeleteGroup", "DeleteSnippet", "DeleteEnvironmentVariable",
     "DeleteAlertChannel"}

SuccessCodes(name) ==
    CASE name = "CreateAlertChannel" -> {200, 201}
      [] name \in Creates -> {201}
      [] name \in Deletes -> {204}
      [] OTHER -> {200}

\* an operation has returned after apiCall returned to it without error
RoundTripDone == pc = "done" /\ tr.err = NoErr

\* C1: after a completed round trip an operation goes on past the status
\* check exactly when the status is the endpoint table's code for it (200
\* or 201 for CreateAlertChannel); with any other status it returns an
\* unexpected-status error and no value; a Delete that receives 204
\* returns no error, whatever the body.
C1_StatusDecidesSuccess ==
    RoundTripDone =>
        /\ (tr.statusCode \in SuccessCodes(op)) = (out.err.kind # "status")
        /\ tr.statusCode \notin SuccessCodes(op) =>
               /\ out.err.kind = "status"
               /\ out.val = NoVal
               /\ ~out.panicked
        /\ (op \in Deletes /\ tr.statusCode = 204) => out = Return(NoVal, NoErr)

C1_Witness ==
    /\ RoundTripDone
    /\ op = "Delete"
    /\ tr.statusCode = 204
    /\ tr.response = EmptyText
    /\ out = Return(NoVal, NoErr)

\* the error of an unexpected status carries the status and the body
CarriesStatusAndBody ==
    /\ out.err.kind = "status"
    /\ out.err.status = tr.statusCode
    /\ Unquote(out.err.res) = tr.response

\* ... and the payload the operation sent
CarriesPayload ==
    /\ out.err.kind = "status"
    /\ out.err.payload.present
    /\ out.err.payload.data = wire.call.data

UnexpectedStatus == RoundTripDone /\ tr.statusCode \notin SuccessCodes(op)

----------------------------------------------------------------------------
(* The request URI of GetCheckResults. *)

\* the parameters a filter sets to a meaningful value, as key and value
MeaningfulParams(f) ==
    (IF f.Page > 0 THEN {<<"page", FmtD(f.Page)>>} ELSE {})
    \cup (IF f.Limit > 0 THEN {<<"limit", FmtD(f.Limit)>>} ELSE {})
    \cup (IF f.From > 0 THEN {<<"from", FmtD(f.From)>>} ELSE {})
    \cup (IF f.To > 0 THEN {<<"to", FmtD(f.To)>>} ELSE {})
    \cup (IF f.CheckType \in {"API", "BROWSER"}
          THEN {<<"checkType", <<f.CheckType>>>>} ELSE {})
    \cup (IF f.Location # <<>> THEN {<<"location", QueryEscape(f.Location)>>} ELSE {})
    \cup (IF f.HasFailures THEN {<<"hasFailures", <<"1">>>>} ELSE {})

\* the end of the value that starts at position i of u
RECURSIVE ValueEnd(_, _)
ValueEnd(u, i) ==
    IF i > Len(u) \/ u[i] = "&" THEN i - 1 ELSE ValueEnd(u, i + 1)

\* the key=value pairs written in a URI
ParamsOf(u) ==
    {<<u[i - 1], SubSeq(u, i + 1, ValueEnd(u, i + 1))>> :
        i \in {j \in 2..Len(u) : u[j] = "="}}

ResultsDone == pc = "done" /\ op = "GetCheckResults"

DefaultFilter == [NilFilter EXCEPT !.nil = FALSE]

\* the filter is a filter (not nil) and it sets exactly ...
QueryIsExact ==
    /\ ParamsOf(wire.call.URL) = MeaningfulParams(arg.body)
    /\ Count(wire.call.URL, "=") = Cardinality(MeaningfulParams(arg.body))

\* C6 as stated: the query part holds exactly the fields set to a
\* meaningful value; a filter with every field at its default adds nothing
\* to the URI check-results/{checkId}; a filter with only HasFailures true
\* adds hasFailures=1 and no other parameter.
C6_Original ==
    ResultsDone =>
        /\ QueryIsExact
        /\ arg.body = DefaultFilter => wire.call.URL = <<"check-results/">> \o arg.id
        /\ arg.body = [DefaultFilter EXCEPT !.HasFailures = TRUE] =>
               ParamsOf(wire.call.URL) = {<<"hasFailures", <<"1">>>>}

\* C6 as amended: the query part holds exactly the fields set to a
\* meaningful value; with no filter (nil) the URI is check-results/{checkId},
\* with a filter the URI is that, a "?" and the parameters joined by "&",
\* so a filter with every field at its default adds a bare "?" and no
\* parameter; a filter with only HasFailures true adds ?hasFailures=1.
C6_Amended ==
    ResultsDone =>
        /\ QueryIsExact
        /\ arg.body.nil => wire.call.URL = <<"check-results/">> \o arg.id
        /\ ~arg.body.nil =>
               /\ Len(wire.call.URL) > Len(arg.id) + 1
               /\ SubSeq(wire.call.URL, 1, Len(arg.id) + 2)
                      = <<"check-results/">> \o arg.id \o <<"?">>
               /\ Count(wire.call.URL, "?") = 1
               /\ Count(wire.call.URL, "&")
                      = (IF MeaningfulParams(arg.body) = {} THEN 0
                         ELSE Cardinality(MeaningfulParams(arg.body)) - 1)
        /\ arg.body = DefaultFilter =>
               wire.call.URL = <<"check-results/">> \o arg.id \o <<"?">>
        /\ arg.body = [DefaultFilter EXCEPT !.HasFailures = TRUE] =>
               wire.call.URL = <<"check-results/">> \o arg.id
                                   \o <<"?", "hasFailures", "=", "1">>

C6_Witness ==
    /\ ResultsDone
    /\ wire.sent
    /\ arg.body = [DefaultFilter EXCEPT !.HasFailures = TRUE, !.Page = 2,
                                        !.Location = <<"eu", "&", "us">>]
    /\ wire.call.URL = <<"check-results/", "c1", "?", "hasFailures", "=", "1", "&",
                         "location", "=", "eu", "%26", "us", "&", "page", "=", "2">>

----------------------------------------------------------------------------
(* The autoAssignAlerts flag. *)

FlagWriters == {"Create", "Update", "CreateGroup", "UpdateGroup"}

\* a request was built (http.NewRequest did not fail)
RequestBuilt == pc = "done" /\ wire.req # NoRequest

\* the URL ends in the flag, joined by sep
EndsInFlag(u, sep) ==
    /\ Len(u) > 4
    /\ SubSeq(u, Len(u) - 3, Len(u)) = <<sep, "autoAssignAlerts", "=", "false">>

\* C7: the requests of the create and update operations on checks and
\* check groups, and of no other operation, carry autoAssignAlerts=false,
\* once: after a "?" when the path has no query string, after a "&" when it
\* has one, so that the URL has exactly one "?".
C7_FlagOnCheckAndGroupWrites ==
    RequestBuilt =>
        LET u == wire.req.url
        IN  /\ op \in FlagWriters =>
                /\ Count(u, "autoAssignAlerts") = 1
                /\ Count(u, "?") = 1
                /\ EndsInFlag(u, IF Contains(arg.id, "?") THEN "&" ELSE "?")
            /\ op \notin FlagWriters => Count(u, "autoAssignAlerts") = 0

C7_Witness ==
    /\ RequestBuilt
    /\ wire.sent
    /\ op = "Update"
    /\ arg.id = <<"c1", "?", "x", "=", "1">>
    /\ wire.req.url = <<"https://", "api.checklyhq.com", "/v1/", "checks/", "c1", "?",
                        "x", "=", "1", "&", "autoAssignAlerts", "=", "false">>

----------------------------------------------------------------------------
(* The outcomes of an operation. *)

ChannelReaders == {"CreateAlertChannel", "GetAlertChannel", "UpdateAlertChannel"}

\* the operation reached the decoding of an alert-channel body
DecodesChannel ==
    /\ RoundTripDone
    /\ op \in ChannelReaders
    /\ tr.statusCode \in SuccessCodes(op)

\* a field of the body is present with a value of the wrong JSON kind
WrongKind(body) ==
    /\ body.k = "obj"
    /\ \/ "type" \in DOMAIN body.v /\ body.v["type"].k # "str"
       \/ "id" \in DOMAIN body.v /\ body.v["id"].k # "num"
       \/ \E key \in {"sendRecovery", "sendFailure", "sendDegraded", "sslExpiry"} :
              key \in DOMAIN body.v /\ body.v[key].k # "bool"

\* C8: every operation ends with a result and no error, or with an error
\* and no result; an alert-channel body in which type, sendRecovery,
\* sendFailure, sendDegraded or sslExpiry has the wrong JSON kind, or id is
\* no number, ends the operation with an error: the call is not aborted
\* and the field is not skipped.
C8_ResultOrError ==
    pc = "done" =>
        /\ ~out.panicked
        /\ out.err # NoErr => out.val = NoVal
        /\ (out.err = NoErr /\ op \notin Deletes) => out.val # NoVal
        /\ (DecodesChannel /\ WrongKind(tr.response)) => out.err # NoErr

----------------------------------------------------------------------------
(* The diagnostic sink. *)

\* what apiCall returns for this call when the client has the sink d
ResultWith(d) ==
    LET r == apiCall([c EXCEPT !.debug = d], wire.call.method, wire.call.URL,
                     wire.call.data, net)
    IN  <<r.statusCode, r.response, r.err>>

RequestThenResponse ==
    /\ Len(sink) = 4
    /\ sink[1] = RequestDump(wire.req)
    /\ sink[2] = BlankLine
    /\ sink[3].dump = "response"
    /\ sink[4] = BlankLine

CreateFailed == tr.err.kind = "failed to create HTTP request"
DumpFailed == tr.err.kind = "error dumping HTTP request"
DoFailed == tr.err.kind = "HTTP request failed with"
ReadFailed == tr.err.kind = "HTTP request failed"

----------------------------------------------------------------------------
(* The errors of the transport. *)

\* the network call fails or the context is cancelled: the HTTP client
\* returns no response, or the body cannot be read to its end
NetworkFailed ==
    \/ net.kind \in {"neterr", "cancelled", "readerr"}
    \/ c.httpClient = DefaultClient /\ ~HasScheme(wire.req.url)

\* C10 as stated: apiCall returns an error only when the request cannot be
\* built, the network call fails or the context is cancelled, and then
\* with status 0 and an empty body; on every completed round trip it
\* returns the status, the full body and no error.
C10_Original ==
    pc = "done" =>
        /\ tr.err # NoErr =>
               /\ wire.req = NoRequest \/ NetworkFailed
               /\ tr.statusCode = 0
               /\ tr.response = EmptyText
        /\ (wire.sent /\ ~NetworkFailed) =>
               /\ tr.err = NoErr
               /\ tr.statusCode = net.status
               /\ tr.response = net.body

\* C10 as amended: apiCall returns an error only when the request cannot
\* be built, dumping it to a configured sink fails, the network call fails
\* or the context is cancelled before a response arrives (each with status
\* 0 and an empty body), or reading the body of the response fails (with
\* the status of the response and an empty body); on every round trip
\* whose body was read to its end it returns the status, the full body and
\* no error.
C10_Amended ==
    pc = "done" =>
        /\ tr.err # NoErr =>
               /\ \/ wire.req = NoRequest
                  \/ c.debug # "nil" /\ DumpFailed
                  \/ NetworkFailed
               /\ tr.response = EmptyText
               /\ ReadFailed => (net.kind = "readerr" /\ tr.statusCode = net.status)
               /\ ~ReadFailed => tr.statusCode = 0
        /\ (wire.sent /\ ~NetworkFailed) =>
               /\ tr.err = NoErr
               /\ tr.statusCode = net.status
               /\ tr.response = net.body

C10_Witness ==
    /\ pc = "done"
    /\ wire.sent
    /\ net.kind = "readerr"
    /\ ReadFailed
    /\ tr.statusCode = 404
    /\ tr.response = EmptyText

----------------------------------------------------------------------------
(* Claims about the codec. *)

\* the type of the text is none the registry holds: the key is missing, or
\* its value is not one of the supported type names
UnsupportedType(text) ==
    /\ text.k = "obj"
    /\ \/ "type" \notin DOMAIN text.v
       \/ text.v["type"].k # "str"
       \/ text.v["type"].k = "str" /\ text.v["type"].v \notin {"EMAIL", "WEBHOOK"}

DecodedText == pc = "done" /\ op = "alertChannelFromJSON"

\* C3: decoding an alert-channel text whose type is not in the registry
\* fails with an error, whatever the rest of the text (no config key, no
\* type key): when alertChannelFromJSON returns, it returns an error and
\* no AlertChannel.  (A call that a failed type assertion aborts returns
\* nothing; C8 is about those.)
C3_UnsupportedTypeFails ==
    (DecodedText /\ UnsupportedType(arg.x) /\ ~out.panicked) =>
        /\ out.err # NoErr
        /\ out.val = NoVal

RoundTripped == pc = "done" /\ op = "roundTrip"

\* the optional field comes back as it was sent: unset, or set to its value
SameOptional(before, after) == before.set = after.set /\ (before.set => before.v = after.v)

\* an optional field is a key of the payload exactly when it is set
OnlySetFieldsSent ==
    /\ wire.k = "obj"
    /\ ("sendRecovery" \in DOMAIN wire.v) = arg.x.SendRecovery.set
    /\ ("sendFailure" \in DOMAIN wire.v) = arg.x.SendFailure.set
    /\ ("sendDegraded" \in DOMAIN wire.v) = arg.x.SendDegraded.set
    /\ ("sslExpiry" \in DOMAIN wire.v) = arg.x.SSLExpiry.set
    /\ ("sslExpiryThreshold" \in DOMAIN wire.v) = arg.x.SSLExpiryThreshold.set

\* all of the round trip but the two integers
RoundTripKeeps ==
    /\ ~out.panicked
    /\ out.err = NoErr
    /\ out.val.Type = arg.x.Type
    /\ out.val.Config = arg.x.Config
    /\ SameOptional(arg.x.SendRecovery, out.val.SendRecovery)
    /\ SameOptional(arg.x.SendFailure, out.val.SendFailure)
    /\ SameOptional(arg.x.SendDegraded, out.val.SendDegraded)
    /\ SameOptional(arg.x.SSLExpiry, out.val.SSLExpiry)
    /\ arg.x.SSLExpiryThreshold.set = out.val.SSLExpiryThreshold.set
    /\ OnlySetFieldsSent

\* C4 as stated: the round trip of an alert channel of a supported type
\* gives back the id, the type, the typed config and the optional fields;
\* an unset field is absent from the payload and unset afterwards, a field
\* set to false or 0 stays set to it.
C4_Original ==
    RoundTripped =>
        /\ RoundTripKeeps
        /\ out.val.ID = arg.x.ID
        /\ SameOptional(arg.x.SSLExpiryThreshold, out.val.SSLExpiryThreshold)

\* the integer is at most 2^53
UpTo2to53(n) == n.hi = 0 \/ n.lo = 0

\* C4 as amended: the round trip gives back the type, the typed config,
\* the four booleans and which optional fields are set, for every alert
\* channel of a supported type; it gives back the id and the
\* sslExpiryThreshold when their magnitude is at most 2^53 (above it the
\* number comes back as the nearest float64).
C4_Amended ==
    RoundTripped =>
        /\ RoundTripKeeps
        /\ UpTo2to53(arg.x.ID) => out.val.ID = arg.x.ID
        /\ (arg.x.SSLExpiryThreshold.set /\ UpTo2to53(arg.x.SSLExpiryThreshold.v)) =>
               out.val.SSLExpiryThreshold = arg.x.SSLExpiryThreshold

C4_Witness ==
    /\ RoundTripped
    /\ arg.x.ID = IntV(0, MaxLo)
    /\ arg.x.Type = "WEBHOOK"
    /\ arg.x.SendRecovery = NilBool
    /\ arg.x.SendFailure = Some(FALSE)
    /\ arg.x.SSLExpiryThreshold = Some(IntV(0, 0))
    /\ out.val = arg.x
    /\ DOMAIN wire.v = {"id", "type", "config", "sendFailure", "sslExpiryThreshold"}

Extracted == pc = "done" /\ op = "alertChannelFromMap"

\* the integer a number of any of the four Go types stands for
IntegerOf(v) == IntV(v.v.hi, v.v.lo)

----------------------------------------------------------------------------
(* Concurrent callers of one client: goroutines that share the client c    *)
(* and its sink and each call one operation. In this specification pc, op, *)
(* arg, net, wire, tr and out hold one value per goroutine: tr[p] holds    *)
(* the local variables of p's call, wire[p] the requests p handed to the   *)
(* HTTP client, net[p] what the network did with p's request. A step is    *)
(* one statement group of the operation or of apiCall, a write to the sink *)
(* is a step of its own, so the goroutines interleave between any two      *)
(* reads of c, writes to the sink and exchanges with the network.          *)

Procs == {"g1", "g2"}

\* a value json.Marshal refuses
Unsupported == [k |-> "unsupported"]

MarshalErr == [kind |-> "json: unsupported value"]

ConcCalls ==
    {[op |-> "Create", arg |-> Args(NoID, x)] : x \in Resources \cup {Unsupported}}
    \cup {[op |-> o, arg |-> Args(id, NoBody)] :
            o \in {"Get", "Delete"}, id \in {<<"c1">>, <<BadEscape>>}}

ConcEnvs ==
    Envs({JObj([name |-> JStr("web")])})

\* the local variables of a call before it has run
Locals ==
    [data |-> EmptyText, req |-> NoRequest, pending |-> <<>>,
     statusCode |-> 0, response |-> EmptyText, err |-> NoErr]

ConcInit ==
    /\ c \in Clients
    /\ pc = [p \in Procs |-> "idle"]
    /\ op = [p \in Procs |-> "none"]
    /\ arg = [p \in Procs |-> None]
    /\ net = [p \in Procs |-> None]
    /\ wire = [p \in Procs |-> <<>>]
    /\ tr = [p \in Procs |-> Locals]
    /\ out = [p \in Procs |-> None]
    /\ sink = <<>>

\* goroutine p calls an operation
Call(p) ==
    /\ pc[p] = "idle"
    /\ \E k \in ConcCalls :
        /\ op' = [op EXCEPT ![p] = k.op]
        /\ arg' = [arg EXCEPT ![p] = k.arg]
    /\ pc' = [pc EXCEPT ![p] = "encode"]
    /\ UNCHANGED <<c, net, wire, tr, out, sink>>

\* the operation up to its call of apiCall: a create marshals its body and
\* returns the error of json.Marshal, the others have no body
MarshalBody(p) ==
    /\ pc[p] = "encode"
    /\ IF op[p] = "Create" /\ arg[p].body = Unsupported
       THEN /\ out' = [out EXCEPT ![p] = Return(NoVal, MarshalErr)]
            /\ pc' = [pc EXCEPT ![p] = "returned"]
            /\ UNCHANGED tr
       ELSE /\ tr' = [tr EXCEPT ![p].data =
                        IF op[p] = "Create" THEN marshalResource(arg[p].body)
                                            ELSE EmptyText]
            /\ pc' = [pc EXCEPT ![p] = "request"]
            /\ UNCHANGED out
    /\ UNCHANGED <<c, op, arg, net, wire, sink>>

\* apiCall up to the dump of the request: it reads c.url, c.apiKey and
\* c.debug, builds the request and leaves the two lines of the dump to be
\* written
NewRequest(p) ==
    /\ pc[p] = "request"
    /\ LET method == CASE op[p] = "Create" -> "POST"
                       [] op[p] = "Get" -> "GET"
                       [] op[p] = "Delete" -> "DELETE"
           URL == IF op[p] = "Create"
                  THEN withAutoAssignAlertsFlag(<<"checks">>)
                  ELSE <<"checks/">> \o arg[p].id
           requestURL == c.url \o <<"/v1/">> \o URL
           req == [method |-> method, url |-> requestURL,
                   auth |-> "Bearer " \o c.apiKey,
                   ctype |-> "application/json", body |-> tr[p].data]
       IN  IF ~urlParseOK(requestURL)
           THEN /\ tr' = [tr EXCEPT ![p].err =
                            TransportErr("failed to create HTTP request")]
                /\ pc' = [pc EXCEPT ![p] = "check"]
           ELSE IF c.debug # "nil" /\ ~HasScheme(requestURL)
           THEN /\ tr' = [tr EXCEPT ![p].req = req,
                                    ![p].err = TransportErr("error dumping HTTP request")]
                /\ pc' = [pc EXCEPT ![p] = "check"]
           ELSE /\ tr' = [tr EXCEPT ![p].req = req,
                                    ![p].pending =
                                        IF c.debug # "nil"
                                        THEN <<RequestDump(req), BlankLine>>
                                        ELSE <<>>]
                /\ pc' = [pc EXCEPT ![p] = "do"]
    /\ UNCHANGED <<c, op, arg, net, wire, out, sink>>

\* one fmt.Fprintln(c.debug, ...) of p: the sink takes the line after
\* whatever the other goroutines wrote
Fprintln(p) ==
    /\ tr[p].pending # <<>>
    /\ sink' = Append(sink, Head(tr[p].pending))
    /\ tr' = [tr EXCEPT ![p].pending = Tail(tr[p].pending)]
    /\ UNCHANGED <<c, pc, op, arg, net, wire, out>>

\* c.httpClient.Do(req): the request goes to the HTTP client
Do(p) ==
    /\ pc[p] = "do"
    /\ tr[p].pending = <<>>
    /\ wire' = [wire EXCEPT ![p] = Append(wire[p], tr[p].req)]
    /\ pc' = [pc EXCEPT ![p] = "flight"]
    /\ UNCHANGED <<c, op, arg, net, tr, out, sink>>

\* the network does something with p's request
Respond(p) ==
    /\ pc[p] = "flight"
    /\ \E env \in ConcEnvs : net' = [net EXCEPT ![p] = env]
    /\ pc' = [pc EXCEPT ![p] = "answered"]
    /\ UNCHANGED <<c, op, arg, wire, tr, out, sink>>

\* the response a goroutine reads: the one shared by all calls of the client
respOf_Shared(p) ==
    LET others == {q \in Procs \ {p} : net[q] # None}
    IN  IF others = {} THEN net[p] ELSE net[CHOOSE q \in others : TRUE]

\* resp of apiCall, a local variable: what Do returned for p's own request
respOf(p) == net[p]

\* apiCall from the return of Do to its own return: the error of Do, the
\* dump of the response left to be written, the body read
Receive(p) ==
    /\ pc[p] = "answered"
    /\ LET env == respOf(p)
           doFails == \/ env.kind \in {"neterr", "cancelled"}
                      \/ (c.httpClient = DefaultClient /\ ~HasScheme(tr[p].req.url))
       IN  IF doFails
           THEN tr' = [tr EXCEPT ![p].err = TransportErr("HTTP request failed with")]
           ELSE tr' = [tr EXCEPT
                         ![p].pending = IF c.debug # "nil" THEN dumpResponse(env)
                                                           ELSE <<>>,
                         ![p].statusCode = env.status,
                         ![p].response = IF env.kind = "readerr" THEN EmptyText
                                                                 ELSE env.body,
                         ![p].err = IF env.kind = "readerr"
                                    THEN TransportErr("HTTP request failed")
                                    ELSE NoErr]
    /\ pc' = [pc EXCEPT ![p] = "check"]
    /\ UNCHANGED <<c, op, arg, net, wire, out, sink>>

\* the operation after apiCall: the transport's error, the status check,
\* the decoding of the body
Returns(p) ==
    /\ pc[p] = "check"
    /\ tr[p].pending = <<>>
    /\ LET t == tr[p]
           statusErr == StatusErr(FmtStatus, t.statusCode, t.response, NoPayload)
           expected == CASE op[p] = "Create" -> StatusCreated
                         [] op[p] = "Get" -> StatusOK
                         [] op[p] = "Delete" -> StatusNoContent
           result == IF t.err # NoErr THEN Return(NoVal, t.err)
                     ELSE IF t.statusCode # expected THEN Return(NoVal, statusErr)
                     ELSE IF op[p] = "Delete" THEN Return(NoVal, NoErr)
                     ELSE decodeResource(t.response, FmtDecodeS)
       IN  out' = [out EXCEPT ![p] = result]
    /\ pc' = [pc EXCEPT ![p] = "returned"]
    /\ UNCHANGED <<c, op, arg, net, wire, tr, sink>>

ConcNext ==
    \E p \in Procs :
        \/ Call(p) \/ MarshalBody(p) \/ NewRequest(p) \/ Fprintln(p)
        \/ Do(p) \/ Respond(p) \/ Receive(p) \/ Returns(p)

SpecConc == ConcInit /\ [][ConcNext]_vars

----------------------------------------------------------------------------
(* Claims about concurrent callers. *)

\* what the operation returns when it runs alone, start to end, on client c
\* with its own arguments and env as the fate of its own request
Alone(name, a, env) ==
    CASE name = "Create" -> Create(c, a.body, env).out
      [] name = "Get" -> Get(c, a.id, env).out
      [] name = "Delete" -> Delete(c, a.id, env).out

EncodingFails(p) == op[p] = "Create" /\ arg[p].body = Unsupported

\* the fates the outcome of p may depend on: the one of its own request,
\* or none (every fate gives the same outcome) when it sent no request
OwnFates(p) == IF net[p] = None THEN ConcEnvs ELSE {net[p]}

OwnOutcome(p) ==
    pc[p] = "returned" =>
        IF EncodingFails(p)
        THEN out[p] = Return(NoVal, MarshalErr) /\ wire[p] = <<>>
        ELSE \A env \in OwnFates(p) : out[p] = Alone(op[p], arg[p], env)

\* C11: under every interleaving of the calls of two goroutines on one
\* client, no step modifies the client (base URL, API key, HTTP client
\* handle, sink reference); each operation hands at most one request to the
\* HTTP client and none when encoding its body fails; and what an operation
\* returns is what it returns when it runs alone with its own arguments and
\* the response to its own request.
C11_ConcurrentCallsIndependent ==
    /\ [][c' = c]_vars
    /\ [](\A p \in Procs :
            /\ Len(wire[p]) <= 1
            /\ EncodingFails(p) => wire[p] = <<>>
            /\ OwnOutcome(p))

\* both goroutines made the same call, their requests were in progress at
\* the same time (their request dumps are interleaved in the sink), their
\* requests met different fates and they returned different outcomes
C11_Witness ==
    /\ \A p \in Procs : pc[p] = "returned" /\ Len(wire[p]) = 1
    /\ op["g1"] = "Create" /\ op["g2"] = "Create"
    /\ arg["g1"] = arg["g2"]
    /\ Len(sink) = 8
    /\ sink[1].dump = "request" /\ sink[2].dump = "request"
    /\ net["g1"].kind = "ok" /\ net["g1"].status = StatusCreated
    /\ net["g2"].kind = "ok" /\ net["g2"].status = 500
    /\ out["g1"].err = NoErr
    /\ out["g2"].err # NoErr

====
